---- MODULE Spec2Model ----
(***************************************************************************)
(* Power / sample-size engine of app.py: the bisection quantile solver     *)
(* (z_from_alpha, z_from_power), the two sample-size formulas              *)
(* (n_per_group_independent, n_paired), the headline calculation and the   *)
(* curve sweep of the script.                                              *)
(*                                                                         *)
(* Python floats are represented as fixed-point numbers: every float       *)
(* quantity is an integer count of a unit that is named next to it.        *)
(* Products, quotients and the final ceiling are exact on these rationals; *)
(* the midpoint of the bisection is rounded to the representable grid      *)
(* (round-half-even), as the IEEE division by 2.0 of a sum does.           *)
(*                                                                         *)
(* Spec       : the script, rerun on every widget change (headline number  *)
(*              and curve).                                                *)
(* SpecCalc   : the calculation block called with arguments of the         *)
(*              caller's choice, delta = 0 included.                       *)
(* SpecSolver : one call of z_from_alpha / z_from_power, pass by pass,     *)
(*              arguments outside (0, 1) included.                         *)
(***************************************************************************)
EXTENDS Integers, Sequences, FiniteSets, TLC

(***************************************************************************)
(* Representation of the float quantities                                  *)
(***************************************************************************)
\* Number of fractional bits kept for a z-value (lo, hi, mid, z_a, z_b).
FracBits == 4
\* A z-value z is stored as z * ZScale.
ZScale == 2 ^ FracBits
\* alpha is stored in units of 1e-4 (the widget's format is %.4f).
AlphaScale == 10000
\* power is stored in units of 1e-2 (the widget's format is %.2f).
PowerScale == 100
\* A probability (target, cdf) is stored in units of 1/(2*AlphaScale), so
\* that 1 - alpha/2 is exact.
ProbScale == 2 * AlphaScale
\* A percentage (delta_percent, bio_cv, inter_sd, x) is stored in units of
\* 0.001 %, the resolution of the stop value 30.0 + 0.001 of the sweep.
PctScale == 1000
\* A fraction (delta, sigma_bio, sigma_inter) is stored in units of 1/200:
\* p / 100.0 of a percentage that is a multiple of 0.5.
FracScale == 2 * 100

(***************************************************************************)
(* Standard normal CDF, 0.5 * (1.0 + erf(mid / sqrt(2.0)))                 *)
(***************************************************************************)
\* Grid points per unit of z at which the values of the CDF are tabulated.
PhiGrid == 2 ^ 3
\* round(ProbScale * 0.5 * (1 + erf((k/8) / sqrt(2)))) for k = 0 .. 33, the
\* values math.erf produces; from k = 33 (z = 4.125) on the value is the
\* saturated one, ProbScale (as the float CDF is exactly 1.0 for large z).
PhiTable ==
  << 10000, 10995, 11974, 12923, 13829, 14680, 15467, 16184, 16827, 17394,
     17887, 18309, 18664, 18958, 19199, 19392, 19545, 19664, 19756, 19825,
     19876, 19913, 19940, 19960, 19973, 19982, 19988, 19993, 19995, 19997,
     19998, 19999, 19999, 20000 >>

PhiAtGrid(k) == IF k + 1 >= Len(PhiTable) THEN ProbScale ELSE PhiTable[k + 1]

\* CDF at z >= 0 (z in units of 1/ZScale): linear between the grid points.
PhiPos(z) ==
  LET pos == z * PhiGrid
      k   == pos \div ZScale
      r   == pos % ZScale
  IN  PhiAtGrid(k) + ((PhiAtGrid(k + 1) - PhiAtGrid(k)) * r) \div ZScale

\* cdf = 0.5 * (1.0 + erf(mid / sqrt(2.0)))
cdf(z) == IF z >= 0 THEN PhiPos(z) ELSE ProbScale - PhiPos(-z)

(***************************************************************************)
(* Bisection of z_from_alpha / z_from_power                                *)
(***************************************************************************)
\* lo, hi = -10.0, 10.0
BracketLo == -10
BracketHi == 10
\* for _ in range(100)
MaxIter == 100

InitLo == BracketLo * ZScale
InitHi == BracketHi * ZScale

\* Mutant of mid: the sum divided by 4.0 instead of 2.0.
mid_quarter(l, h) == (l + h) \div 4

\* (lo + hi) / 2.0, rounded to the representable grid, ties to even.
mid(l, h) ==
  LET s == l + h
      q == s \div 2
  IN  IF s % 2 = 0 THEN q
      ELSE IF q % 2 = 0 THEN q ELSE q + 1

\* Mutant of BisectStep: the comparison of the loop body reversed.
BisectStep_reversed(l, h, t) ==
  LET m == mid(l, h)
  IN  IF cdf(m) >= t THEN << m, h >> ELSE << l, m >>

\* One pass of the loop body: the new <<lo, hi>>.
BisectStep(l, h, t) ==
  LET m == mid(l, h)
  IN  IF cdf(m) < t THEN << m, h >> ELSE << l, m >>

\* k passes of the loop body from the bracket b = <<lo, hi>> for target t:
\* the first k \div 2 passes, then the remaining ones.
Bisect[b \in Int \X Int, t \in Int, k \in Nat] ==
  IF k = 0 THEN b
  ELSE IF k = 1 THEN BisectStep(b[1], b[2], t)
  ELSE Bisect[Bisect[b, t, k \div 2], t, k - k \div 2]

\* target = 1.0 - alpha / 2.0
TargetOfAlpha(a) == ProbScale - a
\* target = power
TargetOfPower(p) == p * (ProbScale \div PowerScale)

\* The whole loop and the return (lo + hi) / 2.0.
quantile(t) ==
  LET b == Bisect[<< InitLo, InitHi >>, t, MaxIter]
  IN  mid(b[1], b[2])

(***************************************************************************)
(* Inputs                                                                  *)
(***************************************************************************)
\* Values of the alpha widget: min_value 0.0001, value 0.05, max_value 0.2.
AlphaInputs == {1, 500, 2000}
\* Values of the power widget: min_value 0.5, value 0.80, max_value 0.99.
PowerInputs == {50, 80, 99}
\* Arguments outside the open interval (0, 1) handed to the solver directly:
\* alpha = 0, 1, 2, 3 and -0.5; power = 0, 1 and 1.5.
AlphaOutside == {0, AlphaScale, 2 * AlphaScale, 3 * AlphaScale, -5000}
PowerOutside == {0, PowerScale, 150}
AlphaDomain == AlphaInputs \cup AlphaOutside
PowerDomain == PowerInputs \cup PowerOutside

\* The slider of delta_percent: min_value 1.0, max_value 30.0, step 0.5.
SliderMin == 1000
SliderMax == 30000
SliderStep == 500
SliderValues ==
  {SliderMin + k * SliderStep : k \in 0 .. ((SliderMax - SliderMin) \div SliderStep)}

\* Largest variability entered, in steps of 5 % (the widgets accept 0.0 to
\* 200.0).
MaxVar == 3
VarInputs == {k * 5 * PctScale : k \in 0 .. MaxVar}

\* Effect sizes handed to the calculation directly, 0 included.
DeltaArgs == {0, 1000, 1500, 5000, 10000, 30000}

Designs == {"Independent groups (parallel)", "Paired (within-patient)"}

(***************************************************************************)
(* z_from_alpha, z_from_power: pure functions of their argument            *)
(***************************************************************************)
z_from_alpha == [a \in AlphaDomain |-> quantile(TargetOfAlpha(a))]
z_from_power == [p \in PowerDomain |-> quantile(TargetOfPower(p))]

(***************************************************************************)
(* Sample-size formulas                                                    *)
(***************************************************************************)
\* What a call hands back: a value, or the exception it raises.
Ret(v) == [exc |-> "none", val |-> v]
Raise(e) == [exc |-> e, val |-> 0]

\* int(math.ceil(num / den)) for den > 0.
Ceil(num, den) == -((-num) \div den)

\* num / den followed by int(math.ceil(...)): a float division by zero
\* raises ZeroDivisionError.
DivCeil(num, den) ==
  IF den = 0 THEN Raise("ZeroDivisionError") ELSE Ret(Ceil(num, den))

\* math.sqrt(v): kept exact, as the root of v.
math_sqrt(v) == [sq |-> v]

\* p / 100.0: from units of 1/PctScale percent to units of 1/FracScale.
percent_to_fraction(p) == (p * FracScale) \div (100 * PctScale)

\* Mutant of n_per_group_independent: round-to-nearest instead of ceiling.
n_per_group_independent_round(a, p, sigma_total, d) ==
  LET z_a == z_from_alpha[a]
      z_b == z_from_power[p]
      num == 2 * sigma_total.sq * (z_a + z_b) ^ 2
      den == d ^ 2 * ZScale ^ 2
  IN  IF den = 0 THEN Raise("ZeroDivisionError")
      ELSE Ret((2 * num + den) \div (2 * den))

\* n = 2.0 * sigma_total**2 * (z_a + z_b)**2 / delta**2; int(math.ceil(n))
n_per_group_independent(a, p, sigma_total, d) ==
  LET z_a == z_from_alpha[a]
      z_b == z_from_power[p]
  IN  DivCeil(2 * sigma_total.sq * (z_a + z_b) ^ 2, d ^ 2 * ZScale ^ 2)

\* Mutant of n_paired: the factor 2 of the independent design applied.
n_paired_factor2(a, p, sigma_diff, d) ==
  LET z_a == z_from_alpha[a]
      z_b == z_from_power[p]
  IN  DivCeil(2 * sigma_diff ^ 2 * (z_a + z_b) ^ 2, d ^ 2 * ZScale ^ 2)

\* n = sigma_diff**2 * (z_a + z_b)**2 / delta**2; int(math.ceil(n))
n_paired(a, p, sigma_diff, d) ==
  LET z_a == z_from_alpha[a]
      z_b == z_from_power[p]
  IN  DivCeil(sigma_diff ^ 2 * (z_a + z_b) ^ 2, d ^ 2 * ZScale ^ 2)

\* design.startswith("Independent")
StartsWithIndependent(d) == d = "Independent groups (parallel)"

(***************************************************************************)
(* State                                                                   *)
(***************************************************************************)
VARIABLES
  \* the script: widget values, its globals and its position
  design, alpha, power, delta_percent, bio_cv, inter_sd,
  delta, sigma_bio, sigma_inter, n, y, err, pc,
  \* one call of z_from_alpha / z_from_power, pass by pass
  s_fn, s_arg, target, lo, hi, it, s_res, s_pc

script_vars ==
  << design, alpha, power, delta_percent, bio_cv, inter_sd,
     delta, sigma_bio, sigma_inter, n, y, err, pc >>
solver_vars == << s_fn, s_arg, target, lo, hi, it, s_res, s_pc >>
vars == << script_vars, solver_vars >>

\* A name that is not bound yet.
Unset == 0 - 1

\* x = np.arange(1, 30.0 + 0.001, 0.5)
CurveStart == 1000
CurveStop == 30001
CurveStep == 500
CurveLen == Ceil(CurveStop - CurveStart, CurveStep)
x == [i \in 1 .. CurveLen |-> CurveStart + (i - 1) * CurveStep]

Init ==
  /\ design = "Independent groups (parallel)"
  /\ alpha = 500
  /\ power = 80
  /\ delta_percent = 10000
  /\ bio_cv = 15000
  /\ inter_sd = 10000
  /\ delta = Unset
  /\ sigma_bio = Unset
  /\ sigma_inter = Unset
  /\ n = Unset
  /\ y = << >>
  /\ err = "none"
  /\ pc = "calc"
  /\ s_fn = "none"
  /\ s_arg = 0
  /\ target = 0
  /\ lo = 0
  /\ hi = 0
  /\ it = 0
  /\ s_res = Ret(0)
  /\ s_pc = "idle"

(***************************************************************************)
(* The script                                                              *)
(***************************************************************************)
\* A widget changed (or the function is called afresh): the script runs
\* again from the top with these values.
Rerun(dsg, a, p, dp, b, i) ==
  /\ design' = dsg
  /\ alpha' = a
  /\ power' = p
  /\ delta_percent' = dp
  /\ bio_cv' = b
  /\ inter_sd' = i
  /\ delta' = Unset
  /\ sigma_bio' = Unset
  /\ sigma_inter' = Unset
  /\ n' = Unset
  /\ y' = << >>
  /\ err' = "none"
  /\ pc' = "calc"
  /\ UNCHANGED solver_vars

SetDesign(v) == v # design /\ Rerun(v, alpha, power, delta_percent, bio_cv, inter_sd)
SetAlpha(v) == v # alpha /\ Rerun(design, v, power, delta_percent, bio_cv, inter_sd)
SetPower(v) == v # power /\ Rerun(design, alpha, v, delta_percent, bio_cv, inter_sd)
SetDeltaPercent(v) == v # delta_percent /\ Rerun(design, alpha, power, v, bio_cv, inter_sd)
SetBioCv(v) == v # bio_cv /\ Rerun(design, alpha, power, delta_percent, v, inter_sd)
SetInterSd(v) == v # inter_sd /\ Rerun(design, alpha, power, delta_percent, bio_cv, v)

\* Mutant of SampleSize: sigma_diff and delta handed to n_paired in the
\* wrong order.
SampleSize_swapped(dsg, a, p, sb, si, d) ==
  IF StartsWithIndependent(dsg)
  THEN n_per_group_independent(a, p, math_sqrt(sb ^ 2 + si ^ 2), d)
  ELSE n_paired(a, p, d, si)

\* The sample size of the design at effect size d (a fraction), from the
\* script's globals sigma_bio and sigma_inter: the two branches of
\* `if design.startswith("Independent")`.
SampleSize(dsg, a, p, sb, si, d) ==
  IF StartsWithIndependent(dsg)
  THEN LET sigma_total == math_sqrt(sb ^ 2 + si ^ 2)
       IN  n_per_group_independent(a, p, sigma_total, d)
  ELSE LET sigma_diff == si
       IN  n_paired(a, p, sigma_diff, d)

\* delta, sigma_bio, sigma_inter and the headline number n.
Calculate ==
  /\ pc = "calc"
  /\ LET d  == percent_to_fraction(delta_percent)
         sb == percent_to_fraction(bio_cv)
         si == percent_to_fraction(inter_sd)
         r  == SampleSize(design, alpha, power, sb, si, d)
     IN  /\ delta' = d
         /\ sigma_bio' = sb
         /\ sigma_inter' = si
         /\ err' = r.exc
         /\ n' = IF r.exc = "none" THEN r.val ELSE Unset
         /\ pc' = IF r.exc = "none" THEN "curve" ELSE "error"
  /\ UNCHANGED << design, alpha, power, delta_percent, bio_cv, inter_sd, y >>
  /\ UNCHANGED solver_vars

\* Mutant of CurvePoint: the curve drawn with the independent formula
\* whatever the design.
CurvePoint_independent(v) ==
  n_per_group_independent(alpha, power, math_sqrt(sigma_bio ^ 2 + sigma_inter ^ 2),
                          percent_to_fraction(v))

\* One point of the curve: the sample size at the percentage v.
CurvePoint(v) ==
  SampleSize(design, alpha, power, sigma_bio, sigma_inter, percent_to_fraction(v))

\* y = [... for v in x] and the plot.
Curve ==
  /\ pc = "curve"
  /\ LET pts == [i \in 1 .. CurveLen |-> CurvePoint(x[i])]
         bad == {i \in 1 .. CurveLen : pts[i].exc # "none"}
     IN  /\ y' = IF bad = {} THEN [i \in 1 .. CurveLen |-> pts[i].val] ELSE << >>
         /\ err' = IF bad = {} THEN "none" ELSE "ZeroDivisionError"
         /\ pc' = IF bad = {} THEN "done" ELSE "error"
  /\ UNCHANGED << design, alpha, power, delta_percent, bio_cv, inter_sd,
                  delta, sigma_bio, sigma_inter, n >>
  /\ UNCHANGED solver_vars

Next ==
  \/ \E v \in Designs : SetDesign(v)
  \/ \E v \in AlphaInputs : SetAlpha(v)
  \/ \E v \in PowerInputs : SetPower(v)
  \/ \E v \in SliderValues : SetDeltaPercent(v)
  \/ \E v \in VarInputs : SetBioCv(v)
  \/ \E v \in VarInputs : SetInterSd(v)
  \/ Calculate
  \/ Curve

Spec == Init /\ [][Next]_vars

(***************************************************************************)
(* The calculation called with arguments of the caller's choice            *)
(***************************************************************************)
Invoke ==
  \E dsg \in Designs, a \in AlphaInputs, p \in PowerInputs,
     dp \in DeltaArgs, b \in VarInputs, i \in VarInputs :
       Rerun(dsg, a, p, dp, b, i)

NextCalc == Invoke \/ Calculate

SpecCalc == Init /\ [][NextCalc]_vars

(***************************************************************************)
(* The quantile solver, pass by pass                                       *)
(***************************************************************************)
Enter(f, a, t) ==
  /\ s_pc \in {"idle", "returned"}
  /\ s_fn' = f
  /\ s_arg' = a
  /\ target' = t
  /\ lo' = InitLo
  /\ hi' = InitHi
  /\ it' = 0
  /\ s_res' = Ret(0)
  /\ s_pc' = "loop"
  /\ UNCHANGED script_vars

Call_z_from_alpha(a) == Enter("z_from_alpha", a, TargetOfAlpha(a))
Call_z_from_power(p) == Enter("z_from_power", p, TargetOfPower(p))

\* One pass of `for _ in range(100)`.
Iterate ==
  /\ s_pc = "loop"
  /\ it < MaxIter
  /\ LET b == BisectStep(lo, hi, target)
     IN  /\ lo' = b[1]
         /\ hi' = b[2]
  /\ it' = it + 1
  /\ UNCHANGED << s_fn, s_arg, target, s_res, s_pc >>
  /\ UNCHANGED script_vars

\* return (lo + hi) / 2.0
Return ==
  /\ s_pc = "loop"
  /\ it = MaxIter
  /\ s_res' = Ret(mid(lo, hi))
  /\ s_pc' = "returned"
  /\ UNCHANGED << s_fn, s_arg, target, lo, hi, it >>
  /\ UNCHANGED script_vars

NextSolver ==
  \/ \E a \in AlphaDomain : Call_z_from_alpha(a)
  \/ \E p \in PowerDomain : Call_z_from_power(p)
  \/ Iterate
  \/ Return

SpecSolver == Init /\ [][NextSolver]_vars

(***************************************************************************)
(* Properties                                                              *)
(***************************************************************************)
\* The calculation has returned a number.
Returned == pc \in {"curve", "done"}
\* z_alpha + z_power of the current inputs, in units of 1/ZScale.
ZSum == z_from_alpha[alpha] + z_from_power[power]
\* The globals are the widget percentages divided by 100.
FractionsOfInputs ==
  /\ delta * 100 * PctScale = delta_percent * FracScale
  /\ sigma_bio * 100 * PctScale = bio_cv * FracScale
  /\ sigma_inter * 100 * PctScale = inter_sd * FracScale

\* C1: for the independent design and delta > 0 the call returns n, the
\* smallest integer not below 2 * (sigma_bio^2 + sigma_inter^2) *
\* (z_alpha + z_power)^2 / delta^2 (ceiling, not floor, not nearest).
C1_IndependentCeil ==
  (pc # "calc" /\ StartsWithIndependent(design) /\ delta_percent > 0) =>
    LET num == 2 * (sigma_bio ^ 2 + sigma_inter ^ 2) * ZSum ^ 2
        den == delta ^ 2 * ZScale ^ 2
    IN  /\ Returned
        /\ FractionsOfInputs
        /\ n * den >= num
        /\ (n - 1) * den < num

\* C1 witness: an independent-design result whose raw value is not an
\* integer and lies above one half, with both variability components set.
C1_Witness ==
  /\ Returned
  /\ StartsWithIndependent(design)
  /\ sigma_bio > 0
  /\ sigma_inter > 0
  /\ LET num == 2 * (sigma_bio ^ 2 + sigma_inter ^ 2) * ZSum ^ 2
         den == delta ^ 2 * ZScale ^ 2
     IN  n * den > num /\ 2 * (n * den - num) > den

\* C2: for the paired design and delta > 0 the call returns n, the smallest
\* integer not below sigma_inter^2 * (z_alpha + z_power)^2 / delta^2, with
\* no factor 2 and whatever the biological variability is.
C2_PairedCeil ==
  (pc # "calc" /\ ~StartsWithIndependent(design) /\ delta_percent > 0) =>
    LET num == sigma_inter ^ 2 * ZSum ^ 2
        den == delta ^ 2 * ZScale ^ 2
    IN  /\ Returned
        /\ FractionsOfInputs
        /\ n * den >= num
        /\ (n - 1) * den < num

\* C2 witness: a paired result with a biological variability entered.
C2_Witness ==
  /\ Returned
  /\ ~StartsWithIndependent(design)
  /\ bio_cv > 0
  /\ sigma_inter > 0
  /\ n > 1

\* C3: the headline number and every point of the curve are >= 1.
C3_AtLeastOne ==
  /\ Returned => n >= 1
  /\ pc = "done" => \A i \in 1 .. Len(y) : y[i] >= 1

\* C4: with delta = 0 the calculation fails with InvalidArgument and
\* returns nothing.
C4_ZeroDeltaInvalidArgument ==
  (pc # "calc" /\ delta = 0) =>
    /\ pc = "error"
    /\ n = Unset
    /\ err = "InvalidArgument"

\* The argument of the current solver call lies in the open interval (0, 1).
ArgInOpenUnit ==
  IF s_fn = "z_from_alpha" THEN 0 < s_arg /\ s_arg < AlphaScale
  ELSE 0 < s_arg /\ s_arg < PowerScale

\* C5: the solver fails with InvalidArgument for an alpha or a power at or
\* outside the bounds of (0, 1), returning no z-value.
C5_OutsideInvalidArgument ==
  (s_pc = "returned" /\ ~ArgInOpenUnit) => s_res.exc = "InvalidArgument"

\* The sample size the calculation returns for the current design, alpha and
\* power at other percentages.
NAt(dp, b, i) ==
  SampleSize(design, alpha, power, percent_to_fraction(b),
             percent_to_fraction(i), percent_to_fraction(dp)).val

\* C6: the returned sample size does not increase when delta grows and does
\* not decrease when a variability component grows.
C6_Monotone ==
  Returned =>
    /\ \A d2 \in DeltaArgs :
         d2 >= delta_percent => NAt(d2, bio_cv, inter_sd) <= n
    /\ \A b2 \in VarInputs :
         b2 >= bio_cv => NAt(delta_percent, b2, inter_sd) >= n
    /\ \A i2 \in VarInputs :
         i2 >= inter_sd => NAt(delta_percent, bio_cv, i2) >= n

\* C6 witness: a result that a larger delta lowers and a larger variability
\* raises.
C6_Witness ==
  /\ Returned
  /\ \E d2 \in DeltaArgs :
       d2 > delta_percent /\ NAt(d2, bio_cv, inter_sd) < n
  /\ \E i2 \in VarInputs :
       i2 > inter_sd /\ NAt(delta_percent, bio_cv, i2) > n

\* C7: once the curve is drawn, its point at the selected effect size
\* carries the headline number.
C7_CurveAgrees ==
  pc = "done" =>
    \E i \in 1 .. Len(y) : x[i] = delta_percent /\ y[i] = n

\* C7 witness: a finished run of the paired design whose headline number is
\* above 1 and differs from the neighbouring curve points.
C7_Witness ==
  /\ pc = "done"
  /\ ~StartsWithIndependent(design)
  /\ n > 1
  /\ \E i \in 2 .. Len(y) - 1 :
       x[i] = delta_percent /\ y[i - 1] > y[i] /\ y[i] > y[i + 1]

\* The midpoint of the current bracket needs no rounding.
MidExact == (lo + hi) % 2 = 0
\* A pass of the loop.
Pass == s_pc = "loop" /\ s_pc' = "loop"

\* C9 as stated: a call returns after exactly 100 passes whatever the
\* target, each pass gives the midpoint to exactly one of lo and hi, and
\* every pass halves the width of the bracket.
C9_HalvedEveryPass ==
  /\ [](s_pc = "returned" => it = 100)
  /\ [][Pass =>
         /\ it' = it + 1
         /\ \/ lo' = mid(lo, hi) /\ hi' = hi
            \/ hi' = mid(lo, hi) /\ lo' = lo
         /\ 2 * (hi' - lo') = hi - lo]_vars

\* C9 amended: a call returns after exactly 100 passes whatever the target;
\* each pass gives the midpoint to exactly one of lo and hi and never widens
\* the bracket, and halves its width when the midpoint needs no rounding.
C9_FixedPasses ==
  /\ [](s_pc = "returned" => it = 100)
  /\ [](s_pc = "loop" => it <= 100)
  /\ [][Pass =>
         /\ it' = it + 1
         /\ \/ lo' = mid(lo, hi) /\ hi' = hi
            \/ hi' = mid(lo, hi) /\ lo' = lo
         /\ hi' - lo' <= hi - lo
         /\ MidExact => 2 * (hi' - lo') = hi - lo]_vars

\* C9 witness: a call for a target outside (0, 1) has returned after its
\* passes.
C9_Witness ==
  /\ s_pc = "returned"
  /\ ~ArgInOpenUnit
  /\ it = MaxIter

\* C10: the bracket stays within [-10, 10] with lo <= hi, lo never
\* decreases and hi never increases, cdf(lo) < target <= cdf(hi) is kept for
\* a target with cdf(-10) < target <= cdf(10), and the returned midpoint
\* lies in the bracket.
C10_Bracket ==
  /\ [](s_pc \in {"loop", "returned"} =>
          /\ InitLo <= lo /\ lo <= hi /\ hi <= InitHi
          /\ (cdf(InitLo) < target /\ target <= cdf(InitHi)) =>
               (cdf(lo) < target /\ target <= cdf(hi)))
  /\ [](s_pc = "returned" => (lo <= s_res.val /\ s_res.val <= hi))
  /\ [][Pass => (lo' >= lo /\ hi' <= hi)]_vars

\* C10 witness: a call has returned with a bracket that both ends have
\* moved and that still encloses the target.
C10_Witness ==
  /\ s_pc = "returned"
  /\ InitLo < lo /\ lo < hi /\ hi < InitHi
  /\ cdf(lo) < target /\ target <= cdf(hi)

====
